---- MODULE Spec2Model ----
(***************************************************************************)
(* Model of the tool-calling conversation agent of                         *)
(* src/src/conversational_agent.py: the interactive loop start_conversation,*)
(* ConversationalAnalysisAgent.ask with its tool-use loop, _execute_tool   *)
(* and the data operations it dispatches to.                               *)
(***************************************************************************)
EXTENDS Integers, Sequences, FiniteSets, TLC

(***************************************************************************)
(* Bounds of the model.                                                     *)
(***************************************************************************)
\* longest history explored: a question is read, and the completion service
\* asks for another tool round, only while the whole exchange still fits
MaxHistory == 6
\* largest number of tool_use blocks the completion service puts in one response
MaxBatch == 2
\* last second of the wall clock
MaxClock == 1

(***************************************************************************)
(* The datasets the agent is constructed with: small tables.               *)
(***************************************************************************)
LoadedDatasets ==
  [ products |-> << [product_id |-> 1, product_name |-> "Banana", department_id |-> 1],
                    [product_id |-> 2, product_name |-> "Milk",   department_id |-> 2],
                    [product_id |-> 3, product_name |-> "Apple",  department_id |-> 1] >>,
    order_products |-> << [order_id |-> 1, product_id |-> 1, reordered |-> 1],
                          [order_id |-> 1, product_id |-> 2, reordered |-> 0],
                          [order_id |-> 2, product_id |-> 2, reordered |-> 1],
                          [order_id |-> 2, product_id |-> 1, reordered |-> 1],
                          [order_id |-> 3, product_id |-> 3, reordered |-> 0] >>,
    orders |-> << [order_id |-> 1, user_id |-> 7],
                  [order_id |-> 2, user_id |-> 7],
                  [order_id |-> 3, user_id |-> 8] >>,
    departments |-> << [department_id |-> 1, department |-> "produce"],
                       [department_id |-> 2, department |-> "dairy"] >> ]

\* self.datasets: the tables the data operations read
VARIABLE datasets

(***************************************************************************)
(* Helpers standing for the pandas / Python primitives the operations use. *)
(***************************************************************************)
Min(a, b) == IF a <= b THEN a ELSE b

Range(s) == {s[i] : i \in DOMAIN s}

\* case folding of the names and patterns that occur in the model
Casefold(s) ==
  CASE s = "Banana" -> "banana"
    [] s = "Milk" -> "milk"
    [] s = "Apple" -> "apple"
    [] OTHER -> s

\* Series.str.contains(pat, case=False): the patterns drawn are whole names
\* or match nothing, so the search is decided by case-insensitive equality
StrContains(s, pat) == Casefold(s) = Casefold(pat)

\* number of rows of a column holding v
CountOf(col, v) == Cardinality({i \in DOMAIN col : col[i] = v})

FirstIndex(col, v) == CHOOSE i \in DOMAIN col : col[i] = v /\ \A j \in 1..(i-1) : col[j] # v

\* Series.value_counts(): (value, count) by falling count, ties in order of
\* first appearance
ValueCounts(col) ==
  LET vals == Range(col)
      Before(a, b) == \/ CountOf(col, a) > CountOf(col, b)
                      \/ /\ CountOf(col, a) = CountOf(col, b)
                         /\ FirstIndex(col, a) < FirstIndex(col, b)
      Rank(v) == 1 + Cardinality({w \in vals : Before(w, v)})
  IN [r \in 1..Cardinality(vals) |->
        LET v == CHOOSE v \in vals : Rank(v) = r IN <<v, CountOf(col, v)>>]

\* Series.head(n)
HeadN(q, n) == IF n >= 0 THEN SubSeq(q, 1, Min(n, Len(q)))
                        ELSE SubSeq(q, 1, Len(q) + n)

\* order_products.merge(products, on='product_id', how='left'): the
\* product_name column of the merged table
ProductNameOf(pid) ==
  LET P == datasets.products
  IN (CHOOSE i \in DOMAIN P : P[i].product_id = pid)
MergedNames(rows) ==
  [i \in DOMAIN rows |-> datasets.products[ProductNameOf(rows[i].product_id)].product_name]

\* datasets.get('order_products__train', datasets.get('order_products'))
OrderProducts == datasets.order_products

(***************************************************************************)
(* What a call yields: a returned value, or an exception leaving the call. *)
(* op names the data operation the call reached ("none" if it reached none).*)
(***************************************************************************)
NoValue == <<>>

Returned(op, v) == [raised |-> "none", value |-> v, op |-> op, detail |-> ""]

Raised(op, e, detail) == [raised |-> e, value |-> NoValue, op |-> op, detail |-> detail]

\* tool_input.get(key, default)
Get(tool_input, key, default) ==
  IF key \in DOMAIN tool_input THEN tool_input[key] ELSE default

\* absent optional argument (Python None)
None == "None"

\* tool input with no field: {}
EmptyInput == [k \in {} |-> None]

\* reorder_rates[reorder_rates['count'] >= 10]
MinOrders == 10

(***************************************************************************)
(* The data operations.  Dictionaries are records; a mapping built from a  *)
(* ranked Series keeps its order, so it is a sequence of (key, value).     *)
(***************************************************************************)
_get_user_orders(user_id) ==
  LET user_orders == SelectSeq(datasets.orders, LAMBDA r : r.user_id = user_id)
      order_ids == {user_orders[i].order_id : i \in DOMAIN user_orders}
      user_items == SelectSeq(OrderProducts, LAMBDA r : r.order_id \in order_ids)
      names == MergedNames(user_items)
      carts == {user_items[i].order_id : i \in DOMAIN user_items}
  IN IF Len(user_orders) = 0
     THEN Returned("_get_user_orders", [error |-> <<"No orders found for user", user_id>>])
     ELSE Returned("_get_user_orders",
            [user_id |-> user_id,
             total_orders |-> Len(user_orders),
             total_items |-> Len(user_items),
             avg_cart_size |-> <<Len(user_items), Cardinality(carts)>>,
             top_products |-> HeadN(ValueCounts(names), 10)])

_analyze_product(product_name) ==
  LET matching == SelectSeq(datasets.products, LAMBDA r : StrContains(r.product_name, product_name))
      product_ids == {matching[i].product_id : i \in DOMAIN matching}
      product_orders == SelectSeq(OrderProducts, LAMBDA r : r.product_id \in product_ids)
      reordered == Cardinality({i \in DOMAIN product_orders : product_orders[i].reordered = 1})
  IN IF Len(matching) = 0
     THEN Returned("_analyze_product", [error |-> <<"No products found matching", product_name>>])
     ELSE Returned("_analyze_product",
            [matching_products |-> HeadN([i \in DOMAIN matching |-> matching[i].product_name], 10),
             total_orders |-> Len(product_orders),
             unique_customers |-> Cardinality({product_orders[i].order_id : i \in DOMAIN product_orders}),
             reorder_rate |-> <<reordered * 100, Len(product_orders)>>])

_get_top_products(department, limit) ==
  LET dept_ids == {datasets.departments[i].department_id :
                     i \in {j \in DOMAIN datasets.departments :
                              StrContains(datasets.departments[j].department, department)}}
      DeptOf(pid) == datasets.products[ProductNameOf(pid)].department_id
      merged == IF department # None /\ department # ""
                THEN SelectSeq(OrderProducts, LAMBDA r : DeptOf(r.product_id) \in dept_ids)
                ELSE OrderProducts
      top_products == HeadN(ValueCounts(MergedNames(merged)), limit)
  IN Returned("_get_top_products",
       [department_filter |-> department, top_products |-> top_products])

_analyze_department(department_name) ==
  LET matching_dept == SelectSeq(datasets.departments, LAMBDA r : StrContains(r.department, department_name))
      dept_id == matching_dept[1].department_id
      dept_products == SelectSeq(datasets.products, LAMBDA r : r.department_id = dept_id)
      dept_pids == {dept_products[i].product_id : i \in DOMAIN dept_products}
      dept_orders == SelectSeq(OrderProducts, LAMBDA r : r.product_id \in dept_pids)
  IN IF Len(matching_dept) = 0
     THEN Returned("_analyze_department", [error |-> <<"No department found matching", department_name>>])
     ELSE Returned("_analyze_department",
            [department_name |-> matching_dept[1].department,
             total_products |-> Len(dept_products),
             total_orders |-> Len(dept_orders),
             unique_products_ordered |-> Cardinality({dept_orders[i].product_id : i \in DOMAIN dept_orders})])

\* line 278 takes the bound method Series.unique without calling it, and
\* Series.isin(<method>) of line 280 raises TypeError for every product found
_find_product_pairs(product_name, limit) ==
  LET matching == SelectSeq(datasets.products, LAMBDA r : StrContains(r.product_name, product_name))
  IN IF Len(matching) = 0
     THEN Returned("_find_product_pairs", [error |-> <<"No products found matching", product_name>>])
     ELSE Raised("_find_product_pairs", "TypeError", "isin")

_get_reorder_stats(sort_by, limit) ==
  LET pids == {OrderProducts[i].product_id : i \in DOMAIN OrderProducts}
      Cnt(p) == Cardinality({i \in DOMAIN OrderProducts : OrderProducts[i].product_id = p})
      Sum(p) == Cardinality({i \in DOMAIN OrderProducts :
                               OrderProducts[i].product_id = p /\ OrderProducts[i].reordered = 1})
      kept == {p \in pids : Cnt(p) >= MinOrders}
      \* mean(a) < mean(b), the means being Sum/Cnt
      Less(a, b) == Sum(a) * Cnt(b) < Sum(b) * Cnt(a)
      Before(a, b) == IF sort_by = "highest"
                      THEN Less(b, a) \/ (~Less(a, b) /\ a < b)
                      ELSE Less(a, b) \/ (~Less(b, a) /\ a < b)
      Rank(p) == 1 + Cardinality({q \in kept : Before(q, p)})
      sorted == [r \in 1..Cardinality(kept) |-> CHOOSE p \in kept : Rank(p) = r]
      top == HeadN(sorted, limit)
  IN Returned("_get_reorder_stats",
       [sort_by |-> sort_by,
        products |-> [i \in DOMAIN top |->
                        <<datasets.products[ProductNameOf(top[i])].product_name,
                          [reorder_rate |-> <<Sum(top[i]) * 100, Cnt(top[i])>>,
                           total_orders |-> Cnt(top[i])]>>]])

\* now is datetime.now() to the second
_create_visualization(chart_type, data_source, title, limit, department_filter, now) ==
  LET top == _get_top_products(department_filter, limit).value.top_products
      rates == _get_reorder_stats("highest", limit).value.products
      DeptNameOf(pid) ==
        LET did == datasets.products[ProductNameOf(pid)].department_id
        IN datasets.departments[CHOOSE i \in DOMAIN datasets.departments :
                                  datasets.departments[i].department_id = did].department
      dept_counts == HeadN(ValueCounts([i \in DOMAIN OrderProducts |->
                                          DeptNameOf(OrderProducts[i].product_id)]), limit)
      known == data_source \in {"top_products", "reorder_rates", "department_comparison"}
      plot_data == CASE data_source = "top_products" -> top
                     [] data_source = "reorder_rates" -> rates
                     [] OTHER -> dept_counts
      filename == <<"visualizations", data_source, now>>
  IN IF ~known
     THEN Returned("_create_visualization", [error |-> <<"Unknown data source", data_source>>])
     ELSE Returned("_create_visualization",
            [success |-> TRUE,
             filepath |-> filename,
             message |-> <<"Visualization saved to", filename>>,
             data_points |-> Len(plot_data)])

\* a mutant of UnknownTool: a name outside the chain raises
UnknownToolRaises(tool_name) == Raised("none", "KeyError", tool_name)

\* line 188: no comparison of the chain matched
UnknownTool(tool_name) == Returned("none", [error |-> <<"Unknown tool", tool_name>>])

(***************************************************************************)
(* _execute_tool: the chain of name comparisons.  tool_input[key] raises   *)
(* KeyError when the key is absent, before any operation is called.        *)
(***************************************************************************)
_execute_tool(tool_name, tool_input, now) ==
  LET Has(key) == key \in DOMAIN tool_input
      Missing(key) == Raised("none", "KeyError", key)
  IN CASE tool_name = "get_user_orders" ->
            IF Has("user_id") THEN _get_user_orders(tool_input["user_id"])
            ELSE Missing("user_id")
       [] tool_name = "analyze_product" ->
            IF Has("product_name") THEN _analyze_product(tool_input["product_name"])
            ELSE Missing("product_name")
       [] tool_name = "get_top_products" ->
            _get_top_products(Get(tool_input, "department", None), Get(tool_input, "limit", 10))
       [] tool_name = "analyze_department" ->
            IF Has("department_name") THEN _analyze_department(tool_input["department_name"])
            ELSE Missing("department_name")
       [] tool_name = "find_product_pairs" ->
            IF Has("product_name")
            THEN _find_product_pairs(tool_input["product_name"], Get(tool_input, "limit", 5))
            ELSE Missing("product_name")
       [] tool_name = "get_reorder_stats" ->
            IF Has("sort_by")
            THEN _get_reorder_stats(tool_input["sort_by"], Get(tool_input, "limit", 10))
            ELSE Missing("sort_by")
       [] tool_name = "create_visualization" ->
            IF ~Has("chart_type") THEN Missing("chart_type")
            ELSE IF ~Has("data_source") THEN Missing("data_source")
            ELSE IF ~Has("title") THEN Missing("title")
            ELSE _create_visualization(tool_input["chart_type"], tool_input["data_source"],
                                       tool_input["title"], Get(tool_input, "limit", 10),
                                       Get(tool_input, "department_filter", None), now)
       [] OTHER -> UnknownTool(tool_name)

(***************************************************************************)
(* The tool catalog of _define_tools: name, required fields and the enum   *)
(* of the fields that declare one.                                         *)
(***************************************************************************)
NoEnum == [k \in {} |-> {}]

_define_tools ==
  << [name |-> "get_user_orders",      required |-> {"user_id"}, enum |-> NoEnum],
     [name |-> "analyze_product",      required |-> {"product_name"}, enum |-> NoEnum],
     [name |-> "get_top_products",     required |-> {}, enum |-> NoEnum],
     [name |-> "analyze_department",   required |-> {"department_name"}, enum |-> NoEnum],
     [name |-> "find_product_pairs",   required |-> {"product_name"}, enum |-> NoEnum],
     [name |-> "get_reorder_stats",    required |-> {"sort_by"},
      enum |-> [sort_by |-> {"highest", "lowest"}]],
     [name |-> "create_visualization", required |-> {"chart_type", "data_source", "title"},
      enum |-> [chart_type |-> {"bar", "horizontal_bar", "line", "pie", "scatter"}]] >>

ToolNames == {_define_tools[i].name : i \in DOMAIN _define_tools}

RequiredOf(name) ==
  _define_tools[CHOOSE i \in DOMAIN _define_tools : _define_tools[i].name = name].required

EnumOf(name) ==
  _define_tools[CHOOSE i \in DOMAIN _define_tools : _define_tools[i].name = name].enum

(***************************************************************************)
(* Text is a sequence of characters, so that strip, lower and += are       *)
(* computed.                                                                *)
(***************************************************************************)
LowerChar(c) ==
  CASE c = "Q" -> "q" [] c = "U" -> "u" [] c = "I" -> "i" [] c = "T" -> "t"
    [] c = "E" -> "e" [] c = "X" -> "x" [] c = "H" -> "h"
    [] OTHER -> c

\* str.lower()
Lower(str) == [i \in DOMAIN str |-> LowerChar(str[i])]

RECURSIVE LStrip(_)
LStrip(str) == IF str # <<>> /\ str[1] = " " THEN LStrip(Tail(str)) ELSE str

RECURSIVE RStrip(_)
RStrip(str) == IF str # <<>> /\ str[Len(str)] = " "
               THEN RStrip(SubSeq(str, 1, Len(str) - 1)) ELSE str

\* str.strip()
Strip(str) == RStrip(LStrip(str))

\* the reserved tokens of line 513
ReservedTokens == { <<"q", "u", "i", "t">>, <<"e", "x", "i", "t">>, <<"q">> }

\* the lines a user may type
Lines == { <<"q">>, <<" ", "E", "X", "I", "T", " ">>,
           <<>>, <<" ", " ">>,
           <<" ", "h", "i", " ">> }

(***************************************************************************)
(* Messages and content blocks.  A message is [role, content]; content is  *)
(* a sequence of blocks.  The question of line 403 is a plain str: it is   *)
(* held as the single block StrContent(question).                          *)
(***************************************************************************)
StrContent(str) == << [type |-> "str", text |-> str] >>

TextBlock(text) == [type |-> "text", text |-> text]

ToolUseBlock(id, name, input) == [type |-> "tool_use", id |-> id, name |-> name, input |-> input]

\* a block with no text attribute and no tool request
ThinkingBlock == [type |-> "thinking"]

\* json.dumps(tool_result)
JsonDumps(v) == [json |-> v]

ToolResultBlock(id, result) ==
  [type |-> "tool_result", tool_use_id |-> id, content |-> JsonDumps(result)]

\* hasattr(block, "text")
HasText(block) == block.type = "text"

(***************************************************************************)
(* The completion service (self.client.messages.create) is outside the     *)
(* program: it may answer with any response drawn from these sets.         *)
(***************************************************************************)
RequestCycle ==
  << [name |-> "get_top_products",     input |-> [limit |-> 2]],
     [name |-> "create_visualization",
      input |-> [chart_type |-> "bar", data_source |-> "top_products", title |-> "Top"]],
     [name |-> "create_visualization",
      input |-> [chart_type |-> "bar", data_source |-> "top_products", title |-> "Top"]],
     [name |-> "lookup_weather",       input |-> EmptyInput],
     [name |-> "find_product_pairs",   input |-> EmptyInput],
     [name |-> "get_user_orders",      input |-> [user_id |-> 7]],
     [name |-> "find_product_pairs",   input |-> [product_name |-> "banana"]],
     [name |-> "get_reorder_stats",    input |-> [sort_by |-> "median"]] >>

AssistantText == <<"o", "k">>

\* the batches the service emits: every run of 1..MaxBatch consecutive
\* requests of RequestCycle, taken cyclically, with ids first, first+1, ...
Batches(first) ==
  { [i \in 1..n |->
       LET req == RequestCycle[((start + i - 2) % Len(RequestCycle)) + 1]
       IN ToolUseBlock(first + i - 1, req.name, req.input)] :
      start \in DOMAIN RequestCycle, n \in 1..MaxBatch }

\* responses with stop_reason tool_use: a batch alone, or a batch that starts
\* the cycle with a thinking block before it and a text block inside it
ToolUseResponses(first) ==
  { [stop_reason |-> "tool_use", content |-> c] :
      c \in Batches(first) \cup
            { <<ThinkingBlock, b[1], TextBlock(AssistantText)>> \o Tail(b) :
                b \in {x \in Batches(first) : x[1].name = RequestCycle[1].name} } }

\* responses with any other stop_reason
FinalResponses ==
  { [stop_reason |-> "end_turn",
     content |-> <<ThinkingBlock, TextBlock(AssistantText), TextBlock(AssistantText)>>],
    [stop_reason |-> "end_turn", content |-> <<>>],
    [stop_reason |-> "max_tokens", content |-> <<TextBlock(AssistantText)>>] }

NoResponse == [stop_reason |-> "none", content |-> <<>>]

(***************************************************************************)
(* State.                                                                   *)
(***************************************************************************)
VARIABLES
  conversation_history, \* self.conversation_history
  pc,            \* where the interactive loop / ask stands
  line,          \* what the user typed at the prompt, until the loop has acted on it
  question,      \* start_conversation's local: the line read, stripped
  messages,      \* the messages argument of the completion call outstanding (empty if none)
  response,      \* ask's local: the last response of the service
  tool_uses,     \* ask's local: the tool_use blocks of the response
  tool_results,  \* ask's local: the results collected so far
  answer,        \* the value ask returned last
  raised,        \* the exception that left the last call ("none" if none)
  eof,           \* standard input has ended
  clock,         \* wall clock, seconds
  files,         \* image files written under visualizations/
  next_id,       \* the id the service gives its next tool_use block
  ask_start,     \* length of the history when the current ask was entered
  rounds,        \* tool rounds begun by the current ask
  invoked        \* data operations reached by the dispatch of the current batch

vars == << datasets, messages, conversation_history, pc, line, question, response, tool_uses, tool_results,
           answer, raised, eof, clock, files, next_id, ask_start, rounds, invoked >>

Init ==
  /\ datasets = LoadedDatasets
  /\ messages = <<>>
  /\ conversation_history = <<>>
  /\ pc = "input"
  /\ line = <<>>
  /\ question = <<>>
  /\ response = NoResponse
  /\ tool_uses = <<>>
  /\ tool_results = <<>>
  /\ answer = <<>>
  /\ raised = "none"
  /\ eof = FALSE
  /\ clock = 0
  /\ files = {}
  /\ next_id = 1
  /\ ask_start = 0
  /\ rounds = 0
  /\ invoked = <<>>

(***************************************************************************)
(* start_conversation: the prompt of line 511.                             *)
(***************************************************************************)
\* a mutant of ReadLine: the line is kept as typed
ReadLineUnstripped(typed) ==
  /\ pc = "input" /\ ~eof
  /\ Len(conversation_history) + 2 <= MaxHistory
  /\ line' = typed
  /\ question' = typed
  /\ pc' = "read"
  /\ UNCHANGED << messages, datasets, conversation_history, response, tool_uses, tool_results, answer, raised,
                  eof, clock, files, next_id, ask_start, rounds, invoked >>

\* line 511: a line is read and stripped
ReadLine(typed) ==
  /\ pc = "input" /\ ~eof
  /\ (Lower(Strip(typed)) \notin ReservedTokens /\ Strip(typed) # <<>>) =>
       Len(conversation_history) + 2 <= MaxHistory
  /\ line' = typed
  /\ question' = Strip(typed)
  /\ pc' = "read"
  /\ UNCHANGED << messages, datasets, conversation_history, response, tool_uses, tool_results, answer, raised,
                  eof, clock, files, next_id, ask_start, rounds, invoked >>

\* lines 513-515: a reserved token ends the loop
Quit ==
  /\ pc = "read"
  /\ Lower(question) \in ReservedTokens
  /\ pc' = "exit"
  /\ UNCHANGED << messages, datasets, line, question, conversation_history, response, tool_uses, tool_results,
                  answer, raised, eof, clock, files, next_id, ask_start, rounds, invoked >>

\* lines 517-518: an empty line is skipped
EmptyLine ==
  /\ pc = "read"
  /\ Lower(question) \notin ReservedTokens
  /\ question = <<>>
  /\ line' = <<>>
  /\ question' = <<>>
  /\ pc' = "input"
  /\ UNCHANGED << messages, datasets, conversation_history, response, tool_uses, tool_results, answer, raised,
                  eof, clock, files, next_id, ask_start, rounds, invoked >>

\* a mutant of Ask: the history is assigned, not appended to
AskAssignsHistory ==
  /\ pc = "read"
  /\ Lower(question) \notin ReservedTokens
  /\ question # <<>>
  /\ conversation_history' = << [role |-> "user", content |-> StrContent(question)] >>
  /\ ask_start' = 0
  /\ rounds' = 0
  /\ raised' = "none"
  /\ line' = <<>>
  /\ question' = <<>>
  /\ messages' = conversation_history'
  /\ pc' = "create"
  /\ UNCHANGED << datasets, response, tool_uses, tool_results, answer, eof, clock, files, next_id, invoked >>

\* line 520 and lines 400-414: ask is entered, appends the question and calls
\* the service with the history; the loop has no further use of the line
Ask ==
  /\ pc = "read"
  /\ Lower(question) \notin ReservedTokens
  /\ question # <<>>
  /\ conversation_history' =
       Append(conversation_history, [role |-> "user", content |-> StrContent(question)])
  /\ ask_start' = Len(conversation_history)
  /\ rounds' = 0
  /\ raised' = "none"
  /\ line' = <<>>
  /\ question' = <<>>
  /\ messages' = conversation_history'
  /\ pc' = "create"
  /\ UNCHANGED << datasets, response, tool_uses, tool_results, answer, eof, clock, files, next_id, invoked >>

\* input() at the end of standard input raises EOFError, now and ever after
EndOfInput ==
  /\ pc = "input"
  /\ eof' = TRUE
  /\ raised' = "EOFError"
  /\ pc' = "except"
  /\ UNCHANGED << messages, datasets, line, question, conversation_history, response, tool_uses, tool_results, answer,
                  clock, files, next_id, ask_start, rounds, invoked >>

\* lines 523-525: Ctrl-C at the prompt
InterruptInput ==
  /\ pc = "input" /\ ~eof
  /\ raised' = "KeyboardInterrupt"
  /\ pc' = "exit"
  /\ UNCHANGED << messages, datasets, line, question, conversation_history, response, tool_uses, tool_results, answer,
                  eof, clock, files, next_id, ask_start, rounds, invoked >>

\* line 521: the answer is printed and the loop prompts again; the frame of
\* ask is gone
PrintAnswer ==
  /\ pc = "print"
  /\ response' = NoResponse
  /\ tool_uses' = <<>>
  /\ tool_results' = <<>>
  /\ invoked' = <<>>
  /\ pc' = "input"
  /\ UNCHANGED << messages, datasets, line, question, conversation_history, answer, raised, eof, clock, files, next_id,
                  ask_start, rounds >>

\* a mutant of ReportError: the handler leaves the loop
ReportErrorEndsSession ==
  /\ pc = "except"
  /\ response' = NoResponse
  /\ tool_uses' = <<>>
  /\ tool_results' = <<>>
  /\ invoked' = <<>>
  /\ pc' = "exit"
  /\ UNCHANGED << messages, datasets, line, question, conversation_history, answer, raised, eof, clock, files, next_id,
                  ask_start, rounds >>

\* lines 526-527: any Exception is printed (and e is unbound again) and the
\* loop prompts again; the frame of ask is gone
ReportError ==
  /\ pc = "except"
  /\ response' = NoResponse
  /\ tool_uses' = <<>>
  /\ tool_results' = <<>>
  /\ invoked' = <<>>
  /\ raised' = "none"
  /\ pc' = "input"
  /\ UNCHANGED << messages, datasets, line, question, conversation_history, answer, eof, clock, files, next_id,
                  ask_start, rounds >>

(***************************************************************************)
(* ask: the completion calls of lines 409 and 467.                         *)
(***************************************************************************)
ToolUseCount(content) ==
  Len(SelectSeq(content, LAMBDA b : b.type = "tool_use"))

CompleteReturns ==
  /\ pc = "create"
  /\ \E r \in FinalResponses \cup
              (IF Len(conversation_history) + 3 <= MaxHistory
               THEN ToolUseResponses(next_id) ELSE {}) :
        /\ response' = r
        /\ next_id' = next_id + ToolUseCount(r.content)
  /\ messages' = <<>>
  /\ pc' = "while"
  /\ UNCHANGED << datasets, line, question, conversation_history, tool_uses, tool_results, answer, raised,
                  eof, clock, files, ask_start, rounds, invoked >>

\* the call raises (network, service or request error); nothing in ask catches it
CompleteRaises ==
  /\ pc = "create"
  /\ raised' = "APIError"
  /\ messages' = <<>>
  /\ pc' = "except"
  /\ UNCHANGED << datasets, line, question, conversation_history, response, tool_uses, tool_results, answer,
                  eof, clock, files, next_id, ask_start, rounds, invoked >>

\* Ctrl-C while the call is outstanding: lines 523-525 leave the loop; the
\* frame of ask is gone
CompleteInterrupted ==
  /\ pc = "create"
  /\ raised' = "KeyboardInterrupt"
  /\ response' = NoResponse
  /\ tool_uses' = <<>>
  /\ tool_results' = <<>>
  /\ invoked' = <<>>
  /\ messages' = <<>>
  /\ pc' = "exit"
  /\ UNCHANGED << datasets, line, question, conversation_history, answer,
                  eof, clock, files, next_id, ask_start, rounds >>

(***************************************************************************)
(* ask: the tool-use loop of lines 417-472 and the final part 474-492.     *)
(***************************************************************************)
\* a mutant of AssistantContent: only the tool_use blocks are kept
AssistantContentToolUsesOnly(content) ==
  LET kept == SelectSeq(content, LAMBDA b : b.type = "tool_use")
  IN [i \in DOMAIN kept |-> ToolUseBlock(kept[i].id, kept[i].name, kept[i].input)]

\* lines 419-435: the content of the assistant message of a tool round
AssistantContent(content) ==
  LET kept == SelectSeq(content, LAMBDA b : b.type = "tool_use" \/ HasText(b))
  IN [i \in DOMAIN kept |->
        IF kept[i].type = "tool_use"
        THEN ToolUseBlock(kept[i].id, kept[i].name, kept[i].input)
        ELSE TextBlock(kept[i].text)]

\* lines 420-430: the tool_use blocks of the response, in order
ToolUses(content) == SelectSeq(content, LAMBDA b : b.type = "tool_use")

\* lines 475-484: the text blocks of the final response
FinalContent(content) ==
  LET kept == SelectSeq(content, HasText)
  IN [i \in DOMAIN kept |-> TextBlock(kept[i].text)]

RECURSIVE ConcatText(_)
ConcatText(blocks) ==
  IF blocks = <<>> THEN <<>> ELSE blocks[1].text \o ConcatText(Tail(blocks))

NoResponseGenerated == <<"No response generated">>

\* a mutant of FinalResponse: the text is assigned, not accumulated
FinalResponseLastBlock(content) ==
  LET kept == FinalContent(content)
  IN IF kept # <<>> /\ kept[Len(kept)].text # <<>> THEN kept[Len(kept)].text
     ELSE NoResponseGenerated

\* line 492
FinalResponse(content) ==
  LET final_response == ConcatText(FinalContent(content))
  IN IF final_response # <<>> THEN final_response ELSE NoResponseGenerated

\* lines 417-441: stop_reason is tool_use, the assistant message is appended
BeginToolRound ==
  /\ pc = "while"
  /\ response.stop_reason = "tool_use"
  /\ conversation_history' =
       Append(conversation_history,
              [role |-> "assistant", content |-> AssistantContent(response.content)])
  /\ tool_uses' = ToolUses(response.content)
  /\ tool_results' = <<>>
  /\ invoked' = <<>>
  /\ rounds' = rounds + 1
  /\ pc' = "tools"
  /\ UNCHANGED << messages, datasets, line, question, response, answer, raised, eof, clock, files, next_id, ask_start >>

\* the clock is read by create_visualization only: time passes, or does not,
\* before it reads it
Nows(block) ==
  IF block.name = "create_visualization" THEN {clock, clock + 1} \cap (0..MaxClock) ELSE {clock}

FilesAfter(r) ==
  IF r.raised = "none" /\ r.op = "_create_visualization" /\ "filepath" \in DOMAIN r.value
  THEN files \cup {r.value.filepath} ELSE files

\* a mutant of ToolReturns: get_top_products cuts the table it counts in place
ToolReturnsCutsTable ==
  /\ pc = "tools"
  /\ Len(tool_results) < Len(tool_uses)
  /\ LET tool_use_block == tool_uses[Len(tool_results) + 1]
     IN \E now \in Nows(tool_use_block) :
          LET r == _execute_tool(tool_use_block.name, tool_use_block.input, now)
          IN /\ r.raised = "none"
             /\ tool_results' = Append(tool_results, ToolResultBlock(tool_use_block.id, r.value))
             /\ invoked' = Append(invoked, [id |-> tool_use_block.id, op |-> r.op])
             /\ clock' = now
             /\ files' = FilesAfter(r)
             /\ datasets' = IF r.op = "_get_top_products"
                            THEN [datasets EXCEPT !.order_products =
                                    HeadN(@, Get(tool_use_block.input, "limit", 10))]
                            ELSE datasets
  /\ pc' = "tools"
  /\ UNCHANGED << messages, line, question, conversation_history, response, tool_uses, answer, raised, eof,
                  next_id, ask_start, rounds >>

\* a mutant of ToolReturns: the batch is run from its last request backwards
ToolReturnsLastFirst ==
  /\ pc = "tools"
  /\ Len(tool_results) < Len(tool_uses)
  /\ LET tool_use_block == tool_uses[Len(tool_uses) - Len(tool_results)]
     IN \E now \in Nows(tool_use_block) :
          LET r == _execute_tool(tool_use_block.name, tool_use_block.input, now)
          IN /\ r.raised = "none"
             /\ tool_results' = Append(tool_results, ToolResultBlock(tool_use_block.id, r.value))
             /\ invoked' = Append(invoked, [id |-> tool_use_block.id, op |-> r.op])
             /\ clock' = now
             /\ files' = FilesAfter(r)
  /\ datasets' = datasets
  /\ pc' = "tools"
  /\ UNCHANGED << messages, line, question, conversation_history, response, tool_uses, answer, raised, eof,
                  next_id, ask_start, rounds >>

\* lines 445-458: the next tool of the batch runs and returns
ToolReturns ==
  /\ pc = "tools"
  /\ Len(tool_results) < Len(tool_uses)
  /\ LET tool_use_block == tool_uses[Len(tool_results) + 1]
     IN \E now \in Nows(tool_use_block) :
          LET r == _execute_tool(tool_use_block.name, tool_use_block.input, now)
          IN /\ r.raised = "none"
             /\ tool_results' = Append(tool_results, ToolResultBlock(tool_use_block.id, r.value))
             /\ invoked' = Append(invoked, [id |-> tool_use_block.id, op |-> r.op])
             /\ clock' = now
             /\ files' = FilesAfter(r)
  /\ datasets' = datasets
  /\ pc' = "tools"
  /\ UNCHANGED << messages, line, question, conversation_history, response, tool_uses, answer, raised, eof,
                  next_id, ask_start, rounds >>

\* line 452: the tool raises; neither the loop nor ask catches it
ToolRaises ==
  /\ pc = "tools"
  /\ Len(tool_results) < Len(tool_uses)
  /\ LET tool_use_block == tool_uses[Len(tool_results) + 1]
     IN \E now \in Nows(tool_use_block) :
          LET r == _execute_tool(tool_use_block.name, tool_use_block.input, now)
          IN /\ r.raised # "none"
             /\ raised' = r.raised
             /\ invoked' = Append(invoked, [id |-> tool_use_block.id, op |-> r.op])
             /\ clock' = now
  /\ pc' = "except"
  /\ UNCHANGED << messages, datasets, line, question, conversation_history, response, tool_uses, tool_results, answer,
                  eof, files, next_id, ask_start, rounds >>

\* Ctrl-C while the tools run
ToolInterrupted ==
  /\ pc = "tools"
  /\ Len(tool_results) < Len(tool_uses)
  /\ raised' = "KeyboardInterrupt"
  /\ response' = NoResponse
  /\ tool_uses' = <<>>
  /\ tool_results' = <<>>
  /\ invoked' = <<>>
  /\ pc' = "exit"
  /\ UNCHANGED << messages, datasets, line, question, conversation_history, answer,
                  eof, clock, files, next_id, ask_start, rounds >>

\* a mutant of AppendToolResults: one user message per result
AppendToolResultsOneByOne ==
  /\ pc = "tools"
  /\ Len(tool_results) = Len(tool_uses)
  /\ conversation_history' =
       conversation_history \o
         [i \in DOMAIN tool_results |-> [role |-> "user", content |-> <<tool_results[i]>>]]
  /\ messages' = conversation_history'
  /\ pc' = "create"
  /\ UNCHANGED << datasets, line, question, response, tool_uses, tool_results, answer, raised, eof, clock,
                  files, next_id, ask_start, rounds, invoked >>

\* a mutant of AppendToolResults: the service is called with the history as
\* it stood before the results were appended
AppendToolResultsAfterCall ==
  /\ pc = "tools"
  /\ Len(tool_results) = Len(tool_uses)
  /\ conversation_history' =
       Append(conversation_history, [role |-> "user", content |-> tool_results])
  /\ messages' = conversation_history
  /\ pc' = "create"
  /\ UNCHANGED << datasets, line, question, response, tool_uses, tool_results, answer, raised, eof, clock,
                  files, next_id, ask_start, rounds, invoked >>

\* lines 460-472: the batch is done, the tool results are appended and the
\* service is called with the history
AppendToolResults ==
  /\ pc = "tools"
  /\ Len(tool_results) = Len(tool_uses)
  /\ conversation_history' =
       Append(conversation_history, [role |-> "user", content |-> tool_results])
  /\ messages' = conversation_history'
  /\ pc' = "create"
  /\ UNCHANGED << datasets, line, question, response, tool_uses, tool_results, answer, raised, eof, clock,
                  files, next_id, ask_start, rounds, invoked >>

\* lines 474-492: any other stop_reason ends the loop; ask returns
Respond ==
  /\ pc = "while"
  /\ response.stop_reason # "tool_use"
  /\ conversation_history' =
       Append(conversation_history,
              [role |-> "assistant", content |-> FinalContent(response.content)])
  /\ answer' = FinalResponse(response.content)
  /\ pc' = "print"
  /\ UNCHANGED << messages, datasets, line, question, response, tool_uses, tool_results, raised, eof, clock, files,
                  next_id, ask_start, rounds, invoked >>

Next ==
  \/ \E typed \in Lines : ReadLine(typed)
  \/ Quit
  \/ EmptyLine
  \/ Ask
  \/ EndOfInput
  \/ InterruptInput
  \/ PrintAnswer
  \/ ReportError
  \/ CompleteReturns
  \/ CompleteRaises
  \/ CompleteInterrupted
  \/ BeginToolRound
  \/ ToolReturns
  \/ ToolRaises
  \/ ToolInterrupted
  \/ AppendToolResults
  \/ Respond

Spec == Init /\ [][Next]_vars

\* the process is single-threaded and keeps running: while a step is possible,
\* one is taken
FairSpec == Spec /\ WF_vars(Next)

(***************************************************************************)
(* Vocabulary of the properties.                                            *)
(***************************************************************************)
ToolUseIds(m) ==
  {m.content[i].id : i \in {j \in DOMAIN m.content : m.content[j].type = "tool_use"}}

ToolResultIds(m) ==
  {m.content[i].tool_use_id : i \in {j \in DOMAIN m.content : m.content[j].type = "tool_result"}}

HasToolUse(m) == m.role = "assistant" /\ ToolUseIds(m) # {}

IsQuestion(m) ==
  m.role = "user" /\ \E i \in DOMAIN m.content : m.content[i].type = "str"

\* the message after h[i] is a user message holding the results of exactly
\* the tool_use ids of h[i]
Matched(h, i) ==
  /\ i < Len(h)
  /\ h[i + 1].role = "user"
  /\ ToolResultIds(h[i + 1]) = ToolUseIds(h[i])

Paired(h) == \A i \in DOMAIN h : HasToolUse(h[i]) => Matched(h, i)

\* every question is followed by an assistant message
Answered(h) ==
  \A i \in DOMAIN h : IsQuestion(h[i]) => (i < Len(h) /\ h[i + 1].role = "assistant")

Alternating(h) ==
  \A i \in DOMAIN h : h[i].role = (IF i % 2 = 1 THEN "user" ELSE "assistant")

IsPrefix(a, b) == Len(a) <= Len(b) /\ SubSeq(b, 1, Len(a)) = a

\* ask is not running
AskIdle == pc \in {"input", "read", "print", "except", "exit"}

(***************************************************************************)
(* Claims.                                                                  *)
(***************************************************************************)
\* C1: when ask has returned normally, every assistant message of the history
\* that holds tool_use blocks is followed at once by a user message whose
\* tool_result ids are exactly its tool_use ids.
C1_ToolUseAnsweredAfterAsk == pc = "print" => Paired(conversation_history)

\* each tool_use id of uses has exactly one result in results, and nothing else
ExactlyOnce(uses, results) ==
  /\ Len(results) = Len(uses)
  /\ \A u \in DOMAIN uses :
       Cardinality({j \in DOMAIN results : results[j].tool_use_id = uses[u].id}) = 1

\* C2: the dispatch of a batch of n tool_use blocks yields exactly n results,
\* one per id, also when an invocation fails: when the dispatch has ended
\* (the results were appended, or an exception left it) every id of the batch
\* has its one result.
C2_OneResultPerToolUse ==
  (pc \in {"create", "except"} /\ tool_uses # <<>>) => ExactlyOnce(tool_uses, tool_results)

\* the i-th request of the batch names a catalog tool and lacks a required field
LacksRequired(i) ==
  /\ tool_uses[i].name \in ToolNames
  /\ ~(RequiredOf(tool_uses[i].name) \subseteq DOMAIN tool_uses[i].input)

\* C3: a request that lacks a required field of its catalog entry gets a
\* tool_result with an error payload, no data operation is called for it and
\* no exception leaves the dispatch.
C3_MissingFieldYieldsErrorResult ==
  \A i \in DOMAIN invoked :
    LacksRequired(i) =>
      /\ invoked[i].op = "none"
      /\ i \in DOMAIN tool_results
      /\ "error" \in DOMAIN tool_results[i].content.json

\* C4: an exception raised by a data operation is captured into the
\* tool_result of that invocation: every invocation that reached a data
\* operation has its result, and no such exception leaves ask.
C4_OperationFailureCaptured ==
  \A i \in DOMAIN invoked : invoked[i].op # "none" => i \in DOMAIN tool_results

\* C5: a request whose name is no catalog tool gets a tool_result whose payload
\* is the error naming that tool; no data operation is called for it and no
\* exception is raised.
C5_UnknownToolYieldsErrorResult ==
  \A i \in DOMAIN invoked :
    tool_uses[i].name \notin ToolNames =>
      /\ invoked[i].op = "none"
      /\ i \in DOMAIN tool_results
      /\ tool_results[i] =
           ToolResultBlock(tool_uses[i].id, [error |-> <<"Unknown tool", tool_uses[i].name>>])

\* a request with an unknown name was dispatched, after another request
C5_Witness ==
  /\ pc = "tools"
  /\ \E i \in DOMAIN invoked : i > 1 /\ tool_uses[i].name \notin ToolNames

\* the iteration limit C6 speaks of; the code configures none
IterationLimit == 1

\* C6: ask begins no more than IterationLimit tool rounds; beyond them it
\* fails with ProtocolLimitExceeded.
C6_ToolLoopBounded == rounds <= IterationLimit \/ raised = "ProtocolLimitExceeded"

\* C7: whenever ask is not running, also after it was aborted, the history
\* holds no question without an assistant answer and no assistant tool_use
\* message without its tool_result message.
C7_NoPartialTurn ==
  AskIdle => (Answered(conversation_history) /\ Paired(conversation_history))

\* C8: whenever ask is not running the roles of the history alternate user,
\* assistant, user, ..., beginning with user.
C8_RolesAlternate == AskIdle => Alternating(conversation_history)

\* the messages ask appended, counted from the question
Appended(j) == conversation_history[ask_start + j]

\* C9: an ask that returns after k tool rounds has appended exactly 2k+2
\* messages: the question, k pairs of an assistant tool_use message and the
\* user message of its results, and the final assistant text message.
C9_AskAppendsTwoPerRoundPlusTwo ==
  pc = "print" =>
    /\ Len(conversation_history) = ask_start + 2 * rounds + 2
    /\ IsQuestion(Appended(1))
    /\ \A k \in 1..rounds :
         /\ HasToolUse(Appended(2 * k))
         /\ Matched(conversation_history, ask_start + 2 * k)
         /\ ~IsQuestion(Appended(2 * k + 1))
    /\ Appended(2 * rounds + 2).role = "assistant"
    /\ \A i \in DOMAIN Appended(2 * rounds + 2).content :
         Appended(2 * rounds + 2).content[i].type = "text"

\* an ask returned after two tool rounds
C9_Witness == pc = "print" /\ rounds = 2 /\ Len(conversation_history) = 6

\* C10: the history is append-only. Every step leaves it alone or appends one
\* message at its end, and only a step of ask appends: not the running of a
\* tool, not the interactive loop.
C10_HistoryAppendOnly ==
  [][ /\ IsPrefix(conversation_history, conversation_history')
      /\ conversation_history' # conversation_history =>
           /\ Len(conversation_history') = Len(conversation_history) + 1
           /\ \/ pc = "read" /\ pc' = "create"
              \/ pc = "while"
              \/ pc = "tools" /\ Len(tool_results) = Len(tool_uses)
    ]_vars

\* tools ran and a second question was asked on a history of an earlier ask
C10_Witness ==
  /\ pc = "create"
  /\ ask_start >= 4
  /\ \E i \in DOMAIN conversation_history : ToolResultIds(conversation_history[i]) # {}

LastMessage == conversation_history[Len(conversation_history)]

\* C11: when the final response carries text, ask appends one assistant
\* message made of text blocks only, after a user message, and the value it
\* returns is the text of that message.
C11_AnswerIsLastAssistantText ==
  (pc = "print" /\ ConcatText(FinalContent(response.content)) # <<>>) =>
    /\ LastMessage.role = "assistant"
    /\ \A i \in DOMAIN LastMessage.content : LastMessage.content[i].type = "text"
    /\ conversation_history[Len(conversation_history) - 1].role = "user"
    /\ answer = ConcatText(LastMessage.content)

\* ask returned the text of a response of several text blocks and a block
\* without text
C11_Witness ==
  /\ pc = "print"
  /\ Len(response.content) = 3
  /\ answer = AssistantText \o AssistantText

\* C12: ask returns normally only for a proper final outcome: stop_reason
\* end_turn with text. A response with another stop_reason, or without text,
\* makes ask fail instead of returning an answer.
C12_OnlyProperFinalReturns ==
  pc = "print" =>
    /\ response.stop_reason = "end_turn"
    /\ ConcatText(FinalContent(response.content)) # <<>>

\* C13: an exception raised while a question is answered does not end the
\* session. It is handed to the handler of line 526, whose only step leads
\* back to the prompt with input still readable and the history as it was;
\* the loop is left only from the prompt or by KeyboardInterrupt.
C13_ExceptionDoesNotEndSession ==
  [][ /\ (pc = "except" /\ raised # "EOFError") =>
           (pc' = "input" /\ ~eof' /\ conversation_history' = conversation_history)
      /\ (pc # "exit" /\ pc' = "exit") => (pc = "read" \/ raised' = "KeyboardInterrupt")
    ]_vars

\* a question was asked and answered after an earlier question of the same
\* session had failed
C13_Witness ==
  /\ pc = "print"
  /\ \E i \in 1..(Len(conversation_history) - 1) :
       IsQuestion(conversation_history[i]) /\ conversation_history[i + 1].role = "user"

\* C14: a line that, stripped and lowered, is quit, exit or q ends the session
\* with the history untouched and ask not entered; a line that is empty once
\* stripped leaves the history untouched and returns to the prompt; any other
\* line enters ask, which appends that line stripped as the question, and a
\* question is only ever appended by the step that consumes the line read.
C14_LineDecidesQuitSkipAsk ==
  [][ /\ (pc = "read" /\ pc' # "read") =>
           IF Lower(Strip(line)) \in ReservedTokens
           THEN pc' = "exit" /\ conversation_history' = conversation_history
           ELSE IF Strip(line) = <<>>
           THEN pc' = "input" /\ conversation_history' = conversation_history
           ELSE /\ pc' = "create"
                /\ conversation_history' =
                     Append(conversation_history,
                            [role |-> "user", content |-> StrContent(Strip(line))])
      /\ ( /\ Len(conversation_history') > Len(conversation_history)
           /\ IsQuestion(conversation_history'[Len(conversation_history')]) ) =>
             (pc = "read" /\ pc' = "create")
    ]_vars

\* the session was ended by a padded upper-case token after a question was asked
C14_Witness ==
  /\ pc = "exit"
  /\ line = <<" ", "E", "X", "I", "T", " ">>
  /\ raised = "none"
  /\ Len(conversation_history) >= 2
\* C15: within one ask the completion calls and the tool dispatches alternate:
\* a completion call is made only right after the question was appended or
\* right after one whole batch was dispatched; a dispatch starts only from a
\* completed call whose stop_reason is tool_use; and ask ends (returns or fails)
\* only right after a completion call, never out of a dispatch.
C15_TurnLoopSequential ==
  [][ /\ (pc # "create" /\ pc' = "create") =>
           (pc = "read" \/ (pc = "tools" /\ Len(tool_results) = Len(tool_uses)))
      /\ (pc # "tools" /\ pc' = "tools") =>
           (pc = "while" /\ response.stop_reason = "tool_use")
      /\ (pc \in {"create", "while", "tools"} /\ pc' \in {"print", "except"}) =>
           pc \in {"create", "while"}
    ]_vars
\* the tool results of the session so far: those of the batch being run and
\* those already appended to the history
SessionResults ==
  Range(tool_results) \cup
  UNION { {m.content[i] : i \in {j \in DOMAIN m.content : m.content[j].type = "tool_result"}} :
            m \in Range(conversation_history) }

WroteFile(result) == "filepath" \in DOMAIN result.content.json

\* C16: any two create_visualization calls of a session that succeeded
\* returned different file paths.
C16_VisualizationPathsUnique ==
  \A a, b \in SessionResults :
    (a.tool_use_id # b.tool_use_id /\ WroteFile(a) /\ WroteFile(b)) =>
      a.content.json.filepath # b.content.json.filepath
\* the i-th request of the batch names a catalog tool, has its required fields
\* and gives a field a value outside the enum the catalog declares for it
OutsideEnum(i) ==
  /\ tool_uses[i].name \in ToolNames
  /\ RequiredOf(tool_uses[i].name) \subseteq DOMAIN tool_uses[i].input
  /\ \E k \in DOMAIN EnumOf(tool_uses[i].name) \cap DOMAIN tool_uses[i].input :
       tool_uses[i].input[k] \notin EnumOf(tool_uses[i].name)[k]

\* C17: a request with a value outside the catalog's schema is not passed to
\* its data operation and gets a tool_result with an error payload.
C17_OutsideSchemaNotDispatched ==
  \A i \in DOMAIN invoked :
    OutsideEnum(i) =>
      /\ invoked[i].op = "none"
      /\ i \in DOMAIN tool_results
      /\ "error" \in DOMAIN tool_results[i].content.json
\* the tool_use blocks the history holds
SessionRequests ==
  UNION { {m.content[i] : i \in {j \in DOMAIN m.content : m.content[j].type = "tool_use"}} :
            m \in Range(conversation_history) }

ResultsOf(request) == {r \in SessionResults : r.tool_use_id = request.id}

\* C18: the datasets are never changed, and any two get_top_products requests
\* of a session with the same input got the same result: the same ranked
\* sequence of (name, count) entries.
C18_TopProductsRepeatable ==
  /\ datasets = LoadedDatasets
  /\ \A a, b \in SessionRequests :
       (a.name = "get_top_products" /\ b.name = "get_top_products" /\ a.input = b.input) =>
         \A ra \in ResultsOf(a), rb \in ResultsOf(b) : ra.content = rb.content

\* get_top_products was invoked twice with the same input and returned twice
C18_Witness ==
  \E a, b \in SessionRequests :
    /\ a.id # b.id
    /\ a.name = "get_top_products" /\ b.name = "get_top_products" /\ a.input = b.input
    /\ ResultsOf(a) # {} /\ ResultsOf(b) # {}
    /\ \A r \in ResultsOf(a) : Len(r.content.json.top_products) = 2
\* the tool_use and text blocks of a response, as emitted
ToolUseAndText(content) == SelectSeq(content, LAMBDA b : b.type \in {"tool_use", "text"})

C20_BatchRunInEmittedOrder ==
  /\ pc \in {"tools", "create", "except"} =>
       /\ tool_uses = SelectSeq(response.content, LAMBDA b : b.type = "tool_use")
       /\ Len(invoked) <= Len(tool_uses)
       /\ Len(tool_results) <= Len(invoked) /\ Len(invoked) <= Len(tool_results) + 1
       /\ \A k \in DOMAIN invoked : invoked[k].id = tool_uses[k].id
       /\ \A k \in DOMAIN tool_results : tool_results[k].tool_use_id = tool_uses[k].id
  /\ \A i \in 1..(Len(conversation_history) - 1) :
       (HasToolUse(conversation_history[i]) /\ ~IsQuestion(conversation_history[i + 1])) =>
         LET emitted == SelectSeq(conversation_history[i].content,
                                  LAMBDA b : b.type = "tool_use")
             results == conversation_history[i + 1].content
         IN /\ Len(results) = Len(emitted)
            /\ \A k \in DOMAIN results :
                 results[k].type = "tool_result" /\ results[k].tool_use_id = emitted[k].id

\* the results of a batch of two requests, emitted with a text block between
\* them, were appended
C20_Witness ==
  /\ pc = "create"
  /\ Len(response.content) = 4
  /\ Len(LastMessage.content) = 2
  /\ LastMessage.content[1].type = "tool_result"
  /\ LastMessage.content[2].tool_use_id = LastMessage.content[1].tool_use_id + 1
\* C21: while a completion call is outstanding, the messages it was made with
\* are the whole history as it stands, earlier asks included; they are not
\* empty and their last message is a user message: the question of this ask
\* or the tool results just collected.
C21_CallCarriesWholeHistory ==
  pc = "create" =>
    /\ messages = conversation_history
    /\ messages # <<>>
    /\ messages[Len(messages)].role = "user"
    /\ \/ IsQuestion(messages[Len(messages)]) /\ Len(messages) = ask_start + 1
       \/ /\ messages[Len(messages)].content = tool_results
          /\ tool_results # <<>>
          /\ \A k \in DOMAIN tool_results : tool_results[k].type = "tool_result"

\* the call after a tool round of the second ask of a session
C21_Witness ==
  /\ pc = "create"
  /\ ask_start >= 2
  /\ Len(messages) = ask_start + 3
  /\ ~IsQuestion(messages[Len(messages)])
  /\ IsQuestion(messages[1])
\* C22: once standard input has ended, the interactive loop eventually stops.
C22_EndOfInputEndsLoop == eof ~> (pc = "exit")
====
